---- MODULE Spec2Model ----
(***************************************************************************)
(* Model of lizzy/api.py: the REST handlers create_stack, get_stack,       *)
(* patch_stack and delete_stack, the tool calls they sequence (Senza, Kio, *)
(* Stack.get) and the platform those calls read and change.                *)
(*                                                                         *)
(* Python values are modelled as follows.                                  *)
(*   str used as identifier   sequence of one-character strings            *)
(*   Optional[x]              <<>> for None, <<x>> for a value             *)
(*   dict                     function whose DOMAIN is the set of keys      *)
(*   raise / return of a tool a nondeterministic outcome of the step       *)
(* A request is a process: pc[r] is the position of handler r, and every   *)
(* blocking tool call is one step, so requests interleave exactly at the   *)
(* tool calls.                                                             *)
(***************************************************************************)
EXTENDS Integers, Sequences, FiniteSets, TLC

\* ---------------------------------------------------------------- bounds
MaxRequests == 2
MaxResources == 2
MaxLen == 2

\* ------------------------------------------------------------- constants
VERSION == "VERSION"
SEP == "-"
LaunchConfiguration == "AWS::AutoScaling::LaunchConfiguration"
OtherResourceType == "AWS::EC2::SecurityGroup"
MissingComponentError == "Missing component type Senza::TaupageAutoScalingGroup"
MissingPropertyPrefix == "Missing property in senza yaml: "
CreateFailedMessage == "Senza create command failed."

\* ------------------------------------------------------------ input sets
Reqs == {1, 2}
Names == {<<"a">>, <<"a", "-", "b">>}
Versions == {<<"1">>}
Images == {"ami-1", "ami-2"}
Traffics == {100}
Times == {1, 2}
Artifacts == {"art-1", "art-2"}
AppVersions == {<<>>, <<"">>, <<"1.0">>}
Messages == {"tool message"}
Outputs == {"tool output"}

None == <<>>
Some(x) == <<x>>

\* ------------------------------------------------------ identifiers
\* name + '-' + version
StackId(name, version) == name \o <<SEP>> \o version

Ids == {StackId(n, v) : n \in Names, v \in Versions}

\* the strings over alphabet of at most n characters
Strings(alphabet, n) == UNION {[1..k -> alphabet] : k \in 0..n}

\* names and versions an identifier may be composed from: both may hold the
\* separator
AnyNames == Strings({"a", SEP}, MaxLen)
AnyVersions == Strings({"1", SEP}, MaxLen)

\* as LastSep, from the left: str.split('-', 1)
LastSep_First(s) ==
    IF \E i \in 1..Len(s) : s[i] = SEP
    THEN CHOOSE i \in 1..Len(s) : s[i] = SEP /\ \A j \in 1..(i-1) : s[j] # SEP
    ELSE 0

\* str.rsplit('-', 1): split once, at the last separator
LastSep(s) ==
    IF \E i \in 1..Len(s) : s[i] = SEP
    THEN CHOOSE i \in 1..Len(s) : s[i] = SEP /\ \A j \in (i+1)..Len(s) : s[j] # SEP
    ELSE 0

rsplit(s) ==
    IF LastSep(s) = 0 THEN <<s>>
    ELSE <<SubSeq(s, 1, LastSep(s) - 1), SubSeq(s, LastSep(s) + 1, Len(s))>>

\* ------------------------------------------------------ responses
_make_headers == {<<"X-Lizzy-Version", VERSION>>}

\* connexion.problem(status, title, detail, headers=...)
problem(status, title, detail, headers) ==
    [kind |-> "problem", status |-> status, title |-> title, detail |-> detail,
     body |-> <<>>, headers |-> headers]

\* return body, status, headers
response(body, status, headers) ==
    [kind |-> "response", status |-> status, title |-> "", detail |-> <<>>,
     body |-> body, headers |-> headers]

\* an exception that leaves the handler and its decorators
escaped(exception) ==
    [kind |-> "escaped", status |-> 0, title |-> exception, detail |-> <<>>,
     body |-> <<>>, headers |-> {}]

NoResp ==
    [kind |-> "none", status |-> 0, title |-> "", detail |-> <<>>,
     body |-> <<>>, headers |-> {}]

\* exception_to_connexion_problem: ObjectNotFound becomes a 404 problem
exception_to_connexion_problem(uid) ==
    problem(404, "Not Found", <<"Stack not found: ", uid>>, _make_headers)

\* ------------------------------------------------------ rendered definition
Resource(type, missing, source) ==
    [Type |-> type, missing |-> missing, source |-> source]

\* the resources a rendered definition may hold: another type, a resource
\* without 'Type', launch configurations naming an artifact, one whose
\* taupage config has source: null, and ones lacking a nested key
ResourceKinds ==
    {Resource(Some(OtherResourceType), "", None), Resource(None, "", None)}
    \cup {Resource(Some(LaunchConfiguration), "", Some(a)) : a \in Artifacts}
    \cup {Resource(Some(LaunchConfiguration), "", None)}
    \cup {Resource(Some(LaunchConfiguration), k, None) : k \in {"Properties", "source"}}

ResourceLists == UNION {[1..n -> ResourceKinds] : n \in 0..MaxResources}

\* path: the first key of ['Mappings']['Senza']['Info']['StackName'] that is
\* absent ("" when all are there)
Definition(path, name, hasResources, resources) ==
    [path |-> path, StackName |-> name, hasResources |-> hasResources,
     Resources |-> resources]

Definitions ==
    LET names == {Definition("", n, TRUE, <<>>) : n \in Names}
                 \cup {Definition(k, <<>>, TRUE, <<>>) : k \in {"Mappings", "StackName"}}
    IN  {[d EXCEPT !.hasResources = FALSE] : d \in names}
        \cup {[d EXCEPT !.Resources = l] : d \in names, l \in ResourceLists}

PyRepr(key) == <<"'", key, "'">>

\* the for loop over cf_raw_definition['Resources'].items(): the first
\* KeyError ends it, the last launch configuration sets artifact_name
RECURSIVE ScanResources(_, _, _)
ScanResources(resources, i, artifact_name) ==
    IF i > Len(resources) THEN [KeyError |-> "", artifact_name |-> artifact_name]
    ELSE IF resources[i].Type = None THEN [KeyError |-> "Type", artifact_name |-> artifact_name]
    ELSE IF resources[i].Type # Some(LaunchConfiguration)
         THEN ScanResources(resources, i + 1, artifact_name)
    ELSE IF resources[i].missing # ""
         THEN [KeyError |-> resources[i].missing, artifact_name |-> artifact_name]
    ELSE ScanResources(resources, i + 1, resources[i].source)

\* as ExtractArtifact, without the check that an artifact name was found
ExtractArtifact_Unchecked(cf) ==
    LET scan == ScanResources(cf.Resources, 1, None)
        KeyError == IF cf.path # "" THEN cf.path
                    ELSE IF ~cf.hasResources THEN "Resources"
                    ELSE scan.KeyError
    IN  IF KeyError # ""
        THEN [problem |-> problem(400, "Invalid senza yaml",
                                  <<MissingPropertyPrefix>> \o PyRepr(KeyError),
                                  _make_headers),
              failed |-> TRUE, stack_name |-> <<>>, artifact_name |-> None]
        ELSE [problem |-> NoResp, failed |-> FALSE,
              stack_name |-> cf.StackName, artifact_name |-> scan.artifact_name]

\* as ExtractArtifact, with a KeyError outside the try block of the stack
\* name only: a key missing in a resource is not reported
ExtractArtifact_KeyErrorLost(cf) ==
    LET scan == ScanResources(cf.Resources, 1, None)
        KeyError == IF cf.path # "" THEN cf.path
                    ELSE IF ~cf.hasResources THEN "Resources"
                    ELSE ""
    IN  IF KeyError # ""
        THEN [problem |-> problem(400, "Invalid senza yaml",
                                  <<MissingPropertyPrefix>> \o PyRepr(KeyError),
                                  _make_headers),
              failed |-> TRUE, stack_name |-> <<>>, artifact_name |-> None]
        ELSE IF scan.artifact_name = None
        THEN [problem |-> problem(400, "Invalid senza yaml",
                                  <<MissingComponentError>>, _make_headers),
              failed |-> TRUE, stack_name |-> <<>>, artifact_name |-> None]
        ELSE [problem |-> NoResp, failed |-> FALSE,
              stack_name |-> cf.StackName, artifact_name |-> scan.artifact_name]

\* the try block of create_stack after rendering: the problem to return, or
\* none and the stack name and artifact name
ExtractArtifact(cf) ==
    LET scan == ScanResources(cf.Resources, 1, None)
        KeyError == IF cf.path # "" THEN cf.path
                    ELSE IF ~cf.hasResources THEN "Resources"
                    ELSE scan.KeyError
    IN  IF KeyError # ""
        THEN [problem |-> problem(400, "Invalid senza yaml",
                                  <<MissingPropertyPrefix>> \o PyRepr(KeyError),
                                  _make_headers),
              failed |-> TRUE, stack_name |-> <<>>, artifact_name |-> None]
        ELSE IF scan.artifact_name = None
        THEN [problem |-> problem(400, "Invalid senza yaml",
                                  <<MissingComponentError>>, _make_headers),
              failed |-> TRUE, stack_name |-> <<>>, artifact_name |-> None]
        ELSE [problem |-> NoResp, failed |-> FALSE,
              stack_name |-> cf.StackName, artifact_name |-> scan.artifact_name]

\* ------------------------------------------------------ patch request
PatchFields == {"new_ami_image", "new_traffic"}

PatchValues(k) ==
    IF k = "new_ami_image" THEN {None} \cup {Some(i) : i \in Images}
    ELSE {None} \cup {Some(t) : t \in Traffics}

\* the request bodies: every field may be absent, null or set
StackPatches ==
    {[k \in {} |-> None]}
    \cup {[new_ami_image |-> i] : i \in PatchValues("new_ami_image")}
    \cup {[new_traffic |-> t] : t \in PatchValues("new_traffic")}
    \cup {[new_ami_image |-> i, new_traffic |-> t] :
             i \in PatchValues("new_ami_image"), t \in PatchValues("new_traffic")}

\* lizzy.util.filter_empty_values: drops the entries that are unset
filter_empty_values(mapping_object) ==
    [k \in {key \in DOMAIN mapping_object : mapping_object[key] # None}
        |-> mapping_object[k]]

\* ------------------------------------------------------ state
VARIABLES
    stacks,     \* the platform: stack key -> None or Some(stack)
    started,    \* number of requests received so far
    pc,         \* position of each request's handler
    op,         \* the handler each request runs
    args,       \* the arguments of each request
    loc,        \* the local variables of each handler
    calls,      \* the tool calls each request has made, in order
    resp        \* the result of each request

vars == <<stacks, started, pc, op, args, loc, calls, resp>>

Keys == Names \X Versions

NoArgs ==
    [stack_id |-> <<>>, stack_patch |-> [k \in {} |-> None],
     application_version |-> None, stack_version |-> <<>>, image_version |-> ""]

NoLocals ==
    [stack_name |-> <<>>, stack_version |-> <<>>, stack_dict |-> None,
     stack_patch |-> [k \in {} |-> None], artifact_name |-> None,
     noLC |-> FALSE, absentKeys |-> {}, known |-> TRUE, listed |-> <<>>, rendered |-> <<>>]

\* the record Stack.get returns for a deployed stack
StackDict(name, version, image, traffic, time) ==
    [stack_name |-> name, stack_version |-> version, image_version |-> image,
     traffic |-> traffic, creation_time |-> time, readAt |-> 0]

\* the platform may already run stacks deployed earlier
Init ==
    /\ stacks \in {[k \in Keys |-> IF t[k] = 0 THEN None
                                    ELSE Some(StackDict(k[1], k[2], "ami-1", 0, t[k]))] :
                      t \in [Keys -> {0} \cup Times]}
    /\ started = 0
    /\ pc = [r \in Reqs |-> "idle"]
    /\ op = [r \in Reqs |-> ""]
    /\ args = [r \in Reqs |-> NoArgs]
    /\ loc = [r \in Reqs |-> NoLocals]
    /\ calls = [r \in Reqs |-> <<>>]
    /\ resp = [r \in Reqs |-> NoResp]

\* ------------------------------------------------------ tool outcomes
Ok == <<"ok">>
Returned(v) == <<"return", v>>
Raised(exception, message, output) == <<"raise", exception, message, output>>

ExecutionErrors(exception) ==
    {Raised(exception, m, o) : m \in Messages, o \in Outputs}

Call(r, name, arguments, out) ==
    calls' = [calls EXCEPT ![r] =
                 Append(@, [call |-> name, args |-> arguments, out |-> out])]

Finish(r, result) ==
    /\ resp' = [resp EXCEPT ![r] = result]
    /\ pc' = [pc EXCEPT ![r] = "done"]

Goto(r, label) ==
    /\ pc' = [pc EXCEPT ![r] = label]
    /\ UNCHANGED resp

\* Stack.get(name, version) by request r: the stack as the platform has it
\* now, or None for ObjectNotFound. readAt is a ghost: the position of this
\* read among the calls of r.
Stack_get(r, name, version) ==
    IF <<name, version>> \in Keys /\ stacks[<<name, version>>] # None
    THEN Some([stacks[<<name, version>>][1] EXCEPT !.readAt = Len(calls[r]) + 1])
    ELSE None

\* ghosts of the rendered definition, kept for the properties
HasLaunchConfiguration(cf) ==
    /\ cf.hasResources
    /\ \E i \in 1..Len(cf.Resources) : cf.Resources[i].Type = Some(LaunchConfiguration)

AbsentKeys(cf) ==
    (IF cf.path # "" THEN {cf.path} ELSE {})
    \cup (IF ~cf.hasResources THEN {"Resources"} ELSE {})
    \cup {"Type" : i \in {j \in 1..Len(cf.Resources) : cf.Resources[j].Type = None}}
    \cup {cf.Resources[i].missing :
            i \in {j \in 1..Len(cf.Resources) :
                      /\ cf.Resources[j].Type = Some(LaunchConfiguration)
                      /\ cf.Resources[j].missing # ""}}

\* the artifact that the last launch configuration of cf names
LastSource(cf) ==
    LET lcs == {i \in 1..Len(cf.Resources) :
                  cf.Resources[i].Type = Some(LaunchConfiguration)}
    IN  IF lcs = {} THEN None
        ELSE cf.Resources[CHOOSE i \in lcs : \A j \in lcs : j <= i].source

\* ------------------------------------------------------ requests
Idle(r) == pc[r] = "idle"

Receive(r, handler, arguments, label) ==
    /\ Idle(r)
    /\ started < MaxRequests
    /\ started' = started + 1
    /\ op' = [op EXCEPT ![r] = handler]
    /\ args' = [args EXCEPT ![r] = arguments]
    /\ loc' = [loc EXCEPT ![r] = NoLocals]
    /\ calls' = [calls EXCEPT ![r] = <<>>]
    /\ resp' = [resp EXCEPT ![r] = NoResp]
    /\ pc' = [pc EXCEPT ![r] = label]
    /\ UNCHANGED stacks

\* POST /stacks/
request_create(r) ==
    \E av \in AppVersions, sv \in Versions, iv \in Images :
        Receive(r, "create_stack",
                [NoArgs EXCEPT !.application_version = av, !.stack_version = sv,
                               !.image_version = iv],
                "create_render")

\* GET /stacks/{id}
request_get(r) ==
    \E id \in Ids :
        Receive(r, "get_stack", [NoArgs EXCEPT !.stack_id = id], "get_get")

\* PATCH /stacks/{id}
request_patch(r) ==
    \E id \in Ids, p \in StackPatches :
        Receive(r, "patch_stack",
                [NoArgs EXCEPT !.stack_id = id, !.stack_patch = p], "patch_get")

\* DELETE /stacks/{id}
request_delete(r) ==
    \E id \in Ids :
        Receive(r, "delete_stack", [NoArgs EXCEPT !.stack_id = id], "delete_remove")

\* ------------------------------------------------------ all_stacks
\* GET /stacks/
request_all(r) == Receive(r, "all_stacks", NoArgs, "all_list")

\* Stack.list(): the deployed stacks, in any order
Stack_list ==
    LET deployed == {k \in Keys : stacks[k] # None}
    IN  {[i \in 1..Cardinality(deployed) |-> stacks[order[i]][1]] :
            order \in {f \in [1..Cardinality(deployed) -> deployed] :
                          \A i, j \in DOMAIN f : f[i] = f[j] => i = j}}

\* one step of list.sort: stack put behind the stacks that are not younger
Insert(sorted, stack) ==
    LET k == Cardinality({i \in 1..Len(sorted) :
                            sorted[i].creation_time <= stack.creation_time})
    IN  SubSeq(sorted, 1, k) \o <<stack>> \o SubSeq(sorted, k + 1, Len(sorted))

\* the list with its stacks inserted one after the other
RECURSIVE Sorted(_)
Sorted(list) ==
    IF list = <<>> THEN <<>>
    ELSE Insert(Sorted(SubSeq(list, 1, Len(list) - 1)), list[Len(list)])

\* as sort, with the list left as Stack.list returned it
sort_Missing(list) == list

\* stacks.sort(key=lambda stack: stack['creation_time']): stable, ascending
sort(list) == Sorted(list)

all_stacks(r) ==
    /\ pc[r] = "all_list"
    /\ UNCHANGED <<stacks, started, op, args>>
    /\ \E list \in Stack_list :
         /\ Call(r, "Stack.list", <<>>, Ok)
         /\ loc' = [loc EXCEPT ![r].listed = list]
         /\ Finish(r, response(sort(list), 200, _make_headers))

\* ------------------------------------------------------ create_stack
\* as AfterExtract, with application_version tested against None
AfterExtract_NotNone(application_version) ==
    IF application_version # None THEN "create_kio" ELSE "create_senza"

\* if application_version: an empty version is not registered
AfterExtract(application_version) ==
    IF application_version \notin {None, Some("")} THEN "create_kio" ELSE "create_senza"

\* senza.render_definition and the extraction of stack name and artifact;
\* rendered is a ghost: the stack name and the artifact of the definition
create_stack_render(r) ==
    /\ pc[r] = "create_render"
    /\ UNCHANGED <<stacks, started, op, args>>
    /\ \/ \E e \in ExecutionErrors("SenzaRenderError") :
            /\ Call(r, "senza.render_definition", <<args[r].stack_version>>, e)
            /\ Finish(r, problem(400, "Invalid senza yaml", <<e[3]>>, _make_headers))
            /\ UNCHANGED loc
       \/ \E cf \in Definitions :
            LET x == ExtractArtifact(cf)
                ghost == [loc[r] EXCEPT !.noLC = ~HasLaunchConfiguration(cf),
                                        !.absentKeys = AbsentKeys(cf),
                                        !.stack_version = args[r].stack_version,
                                        !.rendered = <<cf.StackName, LastSource(cf)>>]
            IN  /\ Call(r, "senza.render_definition", <<args[r].stack_version>>, Ok)
                /\ IF x.failed
                   THEN /\ Finish(r, x.problem)
                        /\ loc' = [loc EXCEPT ![r] = ghost]
                   ELSE /\ loc' = [loc EXCEPT ![r] =
                                      [ghost EXCEPT !.stack_name = x.stack_name,
                                                    !.artifact_name = x.artifact_name]]
                        /\ Goto(r, AfterExtract(args[r].application_version))

\* Kio().versions_create: its result is only logged
\* as AfterKio, with a failed registration ending the request
AfterKio_Fatal(r, registered) ==
    IF registered THEN Goto(r, "create_senza")
    ELSE Finish(r, problem(400, "Deployment Failed", <<CreateFailedMessage>>,
                           _make_headers))

\* the result of versions_create is logged and creation goes on
AfterKio(r, registered) == Goto(r, "create_senza")

create_stack_kio(r) ==
    /\ pc[r] = "create_kio"
    /\ UNCHANGED <<stacks, started, op, args, loc>>
    /\ \E registered \in BOOLEAN :
         /\ Call(r, "kio.versions_create",
                 <<loc[r].stack_name, args[r].application_version,
                   loc[r].artifact_name>>, Returned(registered))
         /\ AfterKio(r, registered)

\* as CreateFailed, with the result of senza.create not tested
CreateFailed_Ignored(r) == Goto(r, "create_get")

\* the else branch of senza.create: 400 'Deployment Failed'
CreateFailed(r) ==
    Finish(r, problem(400, "Deployment Failed", <<CreateFailedMessage>>,
                      _make_headers))

\* senza.create: deploys the stack unless the tool fails
create_stack_senza(r) ==
    LET key == <<loc[r].stack_name, args[r].stack_version>>
    IN  /\ pc[r] = "create_senza"
        /\ UNCHANGED <<started, op, args, loc>>
        /\ \/ /\ stacks[key] = None
              /\ Call(r, "senza.create", key, Returned(TRUE))
              /\ \E time \in Times :
                    stacks' = [stacks EXCEPT ![key] =
                                 Some(StackDict(key[1], key[2], args[r].image_version,
                                                0, time))]
              /\ Goto(r, "create_get")
           \/ /\ Call(r, "senza.create", key, Returned(FALSE))
              /\ UNCHANGED stacks
              /\ CreateFailed(r)

\* Stack.get after senza.create; create_stack has no handler for
\* ObjectNotFound
create_stack_get(r) ==
    LET stack_dict == Stack_get(r, loc[r].stack_name, args[r].stack_version)
    IN  /\ pc[r] = "create_get"
        /\ UNCHANGED <<stacks, started, op, args>>
        /\ Call(r, "Stack.get", <<loc[r].stack_name, args[r].stack_version>>,
                IF stack_dict = None THEN Raised("ObjectNotFound", "", "") ELSE Ok)
        /\ loc' = [loc EXCEPT ![r].stack_dict = stack_dict]
        /\ Finish(r, IF stack_dict = None THEN escaped("ObjectNotFound")
                     ELSE response(stack_dict, 201, _make_headers))

\* ------------------------------------------------------ get_stack
get_stack_get(r) ==
    LET id == rsplit(args[r].stack_id)
        stack_dict == Stack_get(r, id[1], id[2])
    IN  /\ pc[r] = "get_get"
        /\ UNCHANGED <<stacks, started, op, args>>
        /\ Call(r, "Stack.get", id,
                IF stack_dict = None THEN Raised("ObjectNotFound", "", "") ELSE Ok)
        /\ loc' = [loc EXCEPT ![r].stack_name = id[1], ![r].stack_version = id[2],
                              ![r].stack_dict = stack_dict]
        /\ Finish(r, IF stack_dict = None
                     THEN exception_to_connexion_problem(args[r].stack_id)
                     ELSE response(stack_dict, 200, _make_headers))

\* ------------------------------------------------------ patch_stack
\* as AfterImageUpdate, without the test for new_traffic
AfterImageUpdate_Always(stack_patch) == "patch_domains"

\* where patch_stack goes once the image update is over or was not asked
AfterImageUpdate(stack_patch) ==
    IF "new_traffic" \in DOMAIN stack_patch THEN "patch_domains" ELSE "patch_refresh"

\* where patch_stack goes after it has read the stack
AfterGet(stack_patch) ==
    IF "new_ami_image" \in DOMAIN stack_patch THEN "patch_patch"
    ELSE AfterImageUpdate(stack_patch)

\* as StackNotFound, with ObjectNotFound swallowed
StackNotFound_Ignored(r) == Goto(r, AfterGet(filter_empty_values(args[r].stack_patch)))

\* ObjectNotFound of the first Stack.get leaves patch_stack and becomes the
\* 404 of exception_to_connexion_problem
StackNotFound(r) == Finish(r, exception_to_connexion_problem(args[r].stack_id))

\* filter_empty_values, rsplit and the first Stack.get
patch_stack_get(r) ==
    LET stack_patch == filter_empty_values(args[r].stack_patch)
        id == rsplit(args[r].stack_id)
        stack_dict == Stack_get(r, id[1], id[2])
    IN  /\ pc[r] = "patch_get"
        /\ UNCHANGED <<stacks, started, op, args>>
        /\ Call(r, "Stack.get", id,
                IF stack_dict = None THEN Raised("ObjectNotFound", "", "") ELSE Ok)
        /\ loc' = [loc EXCEPT ![r].stack_name = id[1], ![r].stack_version = id[2],
                              ![r].stack_dict = stack_dict,
                              ![r].stack_patch = stack_patch]
        /\ IF stack_dict = None
           THEN StackNotFound(r)
           ELSE Goto(r, AfterGet(stack_patch))

\* a tool changes field of the deployed stack key; it cannot succeed on a
\* stack the platform does not have
Changed(key, field, value) ==
    /\ stacks[key] # None
    /\ stacks' = [stacks EXCEPT ![key] = Some([@[1] EXCEPT ![field] = value])]

\* as ImageUpdateFailed, without the return
ImageUpdateFailed_Swallowed(r, exception) ==
    Goto(r, AfterImageUpdate(loc[r].stack_patch))

\* as ImageUpdateFailed, with the tool failure taken for a missing stack
ImageUpdateFailed_NotFound(r, exception) ==
    Finish(r, exception_to_connexion_problem(args[r].stack_id))

\* as ImageUpdateFailed, with the image update tried again
ImageUpdateFailed_Retried(r, exception) == Goto(r, "patch_patch")

\* except ExecutionError: the image update failed and the patch ends
ImageUpdateFailed(r, exception) ==
    Finish(r, problem(400, "Image update failed", <<exception[3]>>, _make_headers))

\* senza.patch(stack_name, stack_version, new_ami_image)
patch_stack_patch(r) ==
    LET key == <<loc[r].stack_name, loc[r].stack_version>>
        new_ami_image == loc[r].stack_patch["new_ami_image"][1]
    IN  /\ pc[r] = "patch_patch"
        /\ UNCHANGED <<started, op, args, loc>>
        /\ \/ /\ Changed(key, "image_version", new_ami_image)
              /\ Call(r, "senza.patch", <<key[1], key[2], new_ami_image>>, Ok)
              /\ Goto(r, "patch_respawn")
           \/ \E e \in ExecutionErrors("ExecutionError") :
              /\ Call(r, "senza.patch", <<key[1], key[2], new_ami_image>>, e)
              /\ UNCHANGED stacks
              /\ ImageUpdateFailed(r, e)

\* senza.respawn_instances(stack_name, stack_version)
patch_stack_respawn(r) ==
    LET key == <<loc[r].stack_name, loc[r].stack_version>>
    IN  /\ pc[r] = "patch_respawn"
        /\ UNCHANGED <<started, op, args, loc>>
        /\ \/ /\ Changed(key, "readAt", 0)
              /\ Call(r, "senza.respawn_instances", key, Ok)
              /\ Goto(r, AfterImageUpdate(loc[r].stack_patch))
           \/ \E e \in ExecutionErrors("ExecutionError") :
              /\ Call(r, "senza.respawn_instances", key, e)
              /\ UNCHANGED stacks
              /\ ImageUpdateFailed(r, e)

\* as NoDomains, with the traffic switched all the same
NoDomains_Ignored(r) == Goto(r, "patch_traffic")

\* raise TrafficNotUpdated: neither except clause of patch_stack matches it
\* and exception_to_connexion_problem handles ObjectNotFound only
NoDomains(r) == Finish(r, escaped("TrafficNotUpdated"))

\* as DomainsFailed, with the traffic switched all the same
DomainsFailed_Ignored(r, exception) == Goto(r, "patch_traffic")

\* except SenzaDomainsError
DomainsFailed(r, exception) ==
    Finish(r, problem(400, "Traffic update failed", <<exception[3]>>, _make_headers))

\* senza.domains(stack_name): domains, no domain, or SenzaDomainsError
patch_stack_domains(r) ==
    /\ pc[r] = "patch_domains"
    /\ UNCHANGED <<stacks, started, op, args, loc>>
    /\ \/ /\ Call(r, "senza.domains", <<loc[r].stack_name>>, Returned("domains"))
          /\ Goto(r, "patch_traffic")
       \/ /\ Call(r, "senza.domains", <<loc[r].stack_name>>, Returned("no domains"))
          /\ NoDomains(r)
       \/ \E e \in ExecutionErrors("SenzaDomainsError") :
          /\ Call(r, "senza.domains", <<loc[r].stack_name>>, e)
          /\ DomainsFailed(r, e)

\* except SenzaTrafficError
TrafficFailed(r, exception) ==
    Finish(r, problem(400, "Traffic update failed", <<exception[3]>>, _make_headers))

\* senza.traffic(stack_name, stack_version, percentage)
patch_stack_traffic(r) ==
    LET key == <<loc[r].stack_name, loc[r].stack_version>>
        new_traffic == loc[r].stack_patch["new_traffic"][1]
    IN  /\ pc[r] = "patch_traffic"
        /\ UNCHANGED <<started, op, args, loc>>
        /\ \/ /\ Changed(key, "traffic", new_traffic)
              /\ Call(r, "senza.traffic", <<key[1], key[2], new_traffic>>, Ok)
              /\ Goto(r, "patch_refresh")
           \/ \E e \in ExecutionErrors("SenzaTrafficError") :
              /\ Call(r, "senza.traffic", <<key[1], key[2], new_traffic>>, e)
              /\ UNCHANGED stacks
              /\ TrafficFailed(r, e)

\* as RefreshedStack, without the refresh: the dict read first
RefreshedStack_Stale(r, fetched) == loc[r].stack_dict

\* the stack_dict that patch_stack returns with 202
RefreshedStack(r, fetched) == fetched

\* "refresh the dict": the second Stack.get and the 202
patch_stack_refresh(r) ==
    LET stack_dict == Stack_get(r, loc[r].stack_name, loc[r].stack_version)
    IN  /\ pc[r] = "patch_refresh"
        /\ UNCHANGED <<stacks, started, op, args>>
        /\ Call(r, "Stack.get", <<loc[r].stack_name, loc[r].stack_version>>,
                IF stack_dict = None THEN Raised("ObjectNotFound", "", "") ELSE Ok)
        /\ loc' = [loc EXCEPT ![r].stack_dict = stack_dict]
        /\ Finish(r, IF stack_dict = None
                     THEN exception_to_connexion_problem(args[r].stack_id)
                     ELSE response(RefreshedStack(r, stack_dict), 202, _make_headers))

\* ------------------------------------------------------ delete_stack
\* as DeletionFailed, with the message in place of the output
DeletionFailed_Message(exception) ==
    problem(500, "Stack deletion failed", <<exception[3]>>, _make_headers)

\* except ExecutionError of delete_stack
DeletionFailed(exception) ==
    problem(500, "Stack deletion failed", <<exception[4]>>, _make_headers)

\* senza.remove(stack_name, stack_version); no Stack.get, no 404.
\* known is a ghost: whether the platform had the stack when the tool ran.
delete_stack_remove(r) ==
    LET id == rsplit(args[r].stack_id)
    IN  /\ pc[r] = "delete_remove"
        /\ UNCHANGED <<started, op, args>>
        /\ loc' = [loc EXCEPT ![r].stack_name = id[1], ![r].stack_version = id[2],
                              ![r].known = (id \in Keys /\ stacks[id] # None)]
        /\ \/ /\ Call(r, "senza.remove", id, Ok)
              /\ stacks' = [k \in Keys |-> IF k = id THEN None ELSE stacks[k]]
              /\ Finish(r, response(<<"">>, 204, _make_headers))
           \/ \E e \in ExecutionErrors("ExecutionError") :
              /\ Call(r, "senza.remove", id, e)
              /\ UNCHANGED stacks
              /\ Finish(r, DeletionFailed(e))

\* ------------------------------------------------------ not_found_path_handler
\* a request for a path without a route
request_unknown_path(r) ==
    Receive(r, "not_found_path_handler", NoArgs, "not_found")

\* connexion.problem(401, 'Unauthorized', ''): no headers are passed
not_found_path_handler(r) ==
    /\ pc[r] = "not_found"
    /\ UNCHANGED <<stacks, started, op, args, loc, calls>>
    /\ Finish(r, problem(401, "Unauthorized", <<"">>, {}))

\* ------------------------------------------------------ specifications
\* the result is sent and the worker is free again
reply(r) ==
    /\ pc[r] = "done"
    /\ pc' = [pc EXCEPT ![r] = "idle"]
    /\ op' = [op EXCEPT ![r] = ""]
    /\ args' = [args EXCEPT ![r] = NoArgs]
    /\ loc' = [loc EXCEPT ![r] = NoLocals]
    /\ calls' = [calls EXCEPT ![r] = <<>>]
    /\ resp' = [resp EXCEPT ![r] = NoResp]
    /\ UNCHANGED <<stacks, started>>

create_stack(r) ==
    \/ create_stack_render(r)
    \/ create_stack_kio(r)
    \/ create_stack_senza(r)
    \/ create_stack_get(r)

patch_stack(r) ==
    \/ patch_stack_get(r)
    \/ patch_stack_patch(r)
    \/ patch_stack_respawn(r)
    \/ patch_stack_domains(r)
    \/ patch_stack_traffic(r)
    \/ patch_stack_refresh(r)

\* no handler is between two of its tool calls
Quiet == \A r \in Reqs : Idle(r)

\* requests served one after the other
Next ==
    \E r \in Reqs :
        \/ Quiet /\ request_create(r)
        \/ Quiet /\ request_get(r)
        \/ Quiet /\ request_patch(r)
        \/ Quiet /\ request_delete(r)
        \/ Quiet /\ request_unknown_path(r)
        \/ Quiet /\ request_all(r)
        \/ create_stack(r)
        \/ get_stack_get(r)
        \/ patch_stack(r)
        \/ delete_stack_remove(r)
        \/ not_found_path_handler(r)
        \/ all_stacks(r)
        \/ reply(r)

Spec == Init /\ [][Next]_vars

\* requests on deployed stacks served concurrently: the handlers interleave
\* at their tool calls and race on the platform
NextConc ==
    \E r \in Reqs :
        \/ request_get(r)
        \/ request_patch(r)
        \/ request_delete(r)
        \/ get_stack_get(r)
        \/ patch_stack(r)
        \/ delete_stack_remove(r)
        \/ reply(r)

SpecConc == Init /\ [][NextConc]_vars

\* a request with an identifier composed from any name and any version
request_composed(r) ==
    \E name \in AnyNames, version \in AnyVersions :
        \E h \in {<<"get_stack", "get_get">>, <<"patch_stack", "patch_get">>,
                   <<"delete_stack", "delete_remove">>} :
            Receive(r, h[1], [NoArgs EXCEPT !.stack_id = StackId(name, version)], h[2])

\* get, patch and delete requests with identifiers of every shape, served
\* one after the other
NextSplit ==
    \E r \in Reqs :
        \/ Quiet /\ request_composed(r)
        \/ get_stack_get(r)
        \/ patch_stack_get(r)
        \/ patch_stack_refresh(r)
        \/ delete_stack_remove(r)
        \/ reply(r)

SpecSplit == Init /\ [][NextSplit]_vars

\* ------------------------------------------------------ properties
Done(r) == pc[r] = "done"

CallIndexes(r, names) == {i \in 1..Len(calls[r]) : calls[r][i].call \in names}

Called(r, names) == CallIndexes(r, names) # {}

RaisedAt(r, i) == calls[r][i].out[1] = "raise"

ReturnedAt(r, i, v) == calls[r][i].out = Returned(v)

\* the request body carries field k with a value
Carries(r, k) ==
    k \in DOMAIN args[r].stack_patch /\ args[r].stack_patch[k] # None

\* the (name, version) pairs the identifier of request r was composed from
Composed(r) ==
    {k \in Keys : StackId(k[1], k[2]) = args[r].stack_id}

ImageCalls == {"senza.patch", "senza.respawn_instances"}
TrafficCalls == {"senza.domains", "senza.traffic"}
MutatingCalls == {"senza.patch", "senza.respawn_instances", "senza.traffic"}

\* C1: in patch_stack with both new_ami_image and new_traffic, an
\* ExecutionError of senza.patch or senza.respawn_instances ends the request
\* with the 400 'Image update failed' problem carrying the tool's message;
\* the failed call is the last call of the request, so neither senza.domains
\* nor senza.traffic follows, and respawn_instances is not called after a
\* failed senza.patch.
C1_ImageFailureAbortsPatch ==
    \A r \in Reqs :
        (op[r] = "patch_stack" /\ Carries(r, "new_ami_image") /\ Carries(r, "new_traffic")) =>
            \A i \in CallIndexes(r, ImageCalls) :
                RaisedAt(r, i) =>
                    /\ Done(r)
                    /\ resp[r] = problem(400, "Image update failed",
                                         <<calls[r][i].out[3]>>, _make_headers)
                    /\ i = Len(calls[r])
                    /\ ~Called(r, TrafficCalls)
                    /\ (calls[r][i].call = "senza.patch" =>
                            ~Called(r, {"senza.respawn_instances"}))

C1_Witness ==
    \E r \in Reqs :
        /\ op[r] = "patch_stack" /\ Carries(r, "new_ami_image") /\ Carries(r, "new_traffic")
        /\ Done(r)
        /\ Len(calls[r]) = 3
        /\ calls[r][2].call = "senza.patch" /\ calls[r][2].out = Ok
        /\ calls[r][3].call = "senza.respawn_instances" /\ RaisedAt(r, 3)

\* the render call of the create request r returned a definition
Rendered(r) ==
    /\ op[r] = "create_stack"
    /\ Len(calls[r]) >= 1
    /\ calls[r][1].call = "senza.render_definition"
    /\ calls[r][1].out = Ok

RegistrationCalls == {"kio.versions_create", "senza.create", "Stack.get"}

\* C2: in create_stack, a rendered definition without any
\* AWS::AutoScaling::LaunchConfiguration resource ends the request with a
\* 400 'Invalid senza yaml' problem and none of Kio.versions_create,
\* senza.create and Stack.get is called; when no required key is absent
\* from the definition the detail is the missing component message.
C2_MissingComponent ==
    \A r \in Reqs :
        (Rendered(r) /\ loc[r].noLC) =>
            /\ Done(r)
            /\ resp[r].kind = "problem"
            /\ resp[r].status = 400
            /\ resp[r].title = "Invalid senza yaml"
            /\ resp[r].headers = _make_headers
            /\ (loc[r].absentKeys = {} => resp[r].detail = <<MissingComponentError>>)
            /\ ~Called(r, RegistrationCalls)

C2_Witness ==
    \E r \in Reqs :
        /\ Rendered(r) /\ loc[r].noLC /\ loc[r].absentKeys = {}
        /\ Done(r)
        /\ resp[r].detail = <<MissingComponentError>>
        /\ args[r].application_version = Some("1.0")

\* C3: in create_stack, after Kio.versions_create returned False the
\* handler is not finished before it has called senza.create, which it
\* calls exactly once and right after the registration; the response is
\* 201 with the stack read by the Stack.get that follows exactly when
\* senza.create returned True, and 400 'Deployment Failed' when it returned
\* False, as for a successful registration.
C3_RegistrationFailureNotFatal ==
    \A r \in Reqs :
        \A i \in CallIndexes(r, {"kio.versions_create"}) :
            LET creates == CallIndexes(r, {"senza.create"})
            IN  /\ pc[r] \in {"create_senza", "create_get", "done"}
                /\ pc[r] = "create_senza" <=> creates = {}
                /\ creates \in {{}, {i + 1}}
                /\ (Done(r) /\ ReturnedAt(r, i + 1, TRUE)) =>
                        /\ resp[r].kind = "response" /\ resp[r].status = 201
                        /\ resp[r].body = loc[r].stack_dict
                        /\ resp[r].body # None
                        /\ resp[r].body[1].readAt = i + 2
                        /\ calls[r][i + 2].call = "Stack.get"
                /\ (Done(r) /\ ReturnedAt(r, i + 1, FALSE)) =>
                        resp[r] = problem(400, "Deployment Failed",
                                          <<CreateFailedMessage>>, _make_headers)

C3_Witness ==
    \E r \in Reqs :
        /\ Done(r)
        /\ \E i \in CallIndexes(r, {"kio.versions_create"}) :
              ReturnedAt(r, i, FALSE) /\ ReturnedAt(r, i + 1, TRUE)
        /\ resp[r].status = 201

\* C4: in patch_stack with only new_traffic, when senza.domains returns no
\* domain the request ends failed with TrafficNotUpdated, it has not called
\* senza.traffic and its result is not a 202 response.
C4_NoDomainNoTraffic ==
    \A r \in Reqs :
        (op[r] = "patch_stack" /\ ~Carries(r, "new_ami_image") /\ Carries(r, "new_traffic")) =>
            \A i \in CallIndexes(r, {"senza.domains"}) :
                ReturnedAt(r, i, "no domains") =>
                    /\ Done(r)
                    /\ resp[r].kind # "response"
                    /\ resp[r].title = "TrafficNotUpdated"
                    /\ resp[r].status # 202
                    /\ ~Called(r, {"senza.traffic"})

C4_Witness ==
    \E r \in Reqs :
        /\ op[r] = "patch_stack" /\ ~Carries(r, "new_ami_image") /\ Carries(r, "new_traffic")
        /\ Done(r)
        /\ Len(calls[r]) = 2
        /\ calls[r][2].call = "senza.domains"
        /\ ReturnedAt(r, 2, "no domains")

\* C5: in patch_stack, senza.patch and senza.respawn_instances are called
\* only if the request carries new_ami_image, senza.domains and
\* senza.traffic only if it carries new_traffic; a request carrying neither,
\* on a stack that exists, makes two Stack.get calls and nothing else and
\* answers 202 with the stack as the second one read it from the platform.
C5_AbsentFieldNoOperation ==
    \A r \in Reqs :
        op[r] = "patch_stack" =>
            /\ Called(r, ImageCalls) => Carries(r, "new_ami_image")
            /\ Called(r, TrafficCalls) => Carries(r, "new_traffic")
            /\ (/\ ~Carries(r, "new_ami_image") /\ ~Carries(r, "new_traffic")
                /\ Done(r) /\ calls[r][1].out = Ok) =>
                    /\ Len(calls[r]) = 2
                    /\ calls[r][2].call = "Stack.get"
                    /\ resp[r].kind = "response" /\ resp[r].status = 202
                    /\ resp[r].body # None
                    /\ resp[r].body[1].readAt = 2
                    /\ [resp[r].body[1] EXCEPT !.readAt = 0] =
                         stacks[<<loc[r].stack_name, loc[r].stack_version>>][1]

C5_Witness ==
    \E r \in Reqs :
        /\ op[r] = "patch_stack"
        /\ DOMAIN args[r].stack_patch = PatchFields
        /\ ~Carries(r, "new_ami_image") /\ ~Carries(r, "new_traffic")
        /\ Done(r) /\ resp[r].status = 202

\* C6: a 202 response of patch_stack carries the stack read by a Stack.get
\* that is the last call of the request, hence later than each of its
\* senza.patch, senza.respawn_instances and senza.traffic calls, and not the
\* one read when the handler started; also while other requests change the
\* same stack.
C6_ResponseIsRefetched ==
    \A r \in Reqs :
        (op[r] = "patch_stack" /\ Done(r) /\ resp[r].status = 202) =>
            /\ resp[r].body # None
            /\ resp[r].body[1].readAt = Len(calls[r])
            /\ resp[r].body[1].readAt > 1
            /\ calls[r][Len(calls[r])].call = "Stack.get"
            /\ \A i \in CallIndexes(r, MutatingCalls) : i < resp[r].body[1].readAt

\* a 202 whose stack shows what another request did while this one ran
C6_Witness ==
    \E r \in Reqs, q \in Reqs :
        /\ r # q
        /\ op[r] = "patch_stack" /\ Done(r) /\ resp[r].status = 202
        /\ Called(r, {"senza.patch"})
        /\ ~Carries(r, "new_traffic")
        /\ resp[r].body[1].traffic = 100
        /\ op[q] = "patch_stack" /\ Called(q, {"senza.traffic"})

\* the results the failure mapping documents for each handler
Documented(handler, result) ==
    \/ /\ result.kind = "response"
       /\ result.headers = _make_headers
       /\ \/ handler = "create_stack" /\ result.status = 201 /\ result.body # None
          \/ handler = "get_stack" /\ result.status = 200 /\ result.body # None
          \/ handler = "patch_stack" /\ result.status = 202 /\ result.body # None
          \/ handler = "delete_stack" /\ result.status = 204 /\ result.body = <<"">>
    \/ /\ result.kind = "problem"
       /\ result.detail # <<>>
       /\ \/ /\ handler = "create_stack" /\ result.status = 400
             /\ result.title \in {"Invalid senza yaml", "Deployment Failed"}
          \/ /\ handler = "patch_stack" /\ result.status = 400
             /\ result.title \in {"Image update failed", "Traffic update failed",
                                   "Traffic not updated"}
          \/ /\ handler = "delete_stack" /\ result.status = 500
             /\ result.title = "Stack deletion failed"
          \/ /\ handler \in {"get_stack", "patch_stack", "delete_stack"}
             /\ result.status = 404 /\ result.title = "Not Found"

\* C7: every finished request of create_stack, get_stack, patch_stack and
\* delete_stack has a result that is a success response or a problem of the
\* documented failure mapping; no exception leaves the handler.
C7_EveryResultClassified ==
    \A r \in Reqs :
        (Done(r) /\ op[r] \in {"create_stack", "get_stack", "patch_stack", "delete_stack"}) =>
            Documented(op[r], resp[r])

\* C8: delete_stack on an identifier of a stack the platform does not have
\* answers 404 Not Found.
C8_DeleteUnknownIs404 ==
    \A r \in Reqs :
        (op[r] = "delete_stack" /\ Done(r) /\ ~loc[r].known) =>
            resp[r] = exception_to_connexion_problem(args[r].stack_id)

\* C9: a finished delete_stack has called senza.remove once, and nothing
\* else, with the name and version its identifier was composed from; when
\* the call raised ExecutionError the result is the 500 'Stack deletion
\* failed' problem whose detail is the output of the exception, otherwise
\* it is 204 with an empty body.
C9_DeleteRemovesOnce ==
    \A r \in Reqs :
        (op[r] = "delete_stack" /\ Done(r)) =>
            /\ Len(calls[r]) = 1
            /\ calls[r][1].call = "senza.remove"
            /\ Composed(r) = {calls[r][1].args}
            /\ IF RaisedAt(r, 1)
               THEN resp[r] = problem(500, "Stack deletion failed",
                                      <<calls[r][1].out[4]>>, _make_headers)
               ELSE resp[r] = response(<<"">>, 204, _make_headers)

C9_Witness ==
    \E r \in Reqs :
        /\ op[r] = "delete_stack" /\ Done(r)
        /\ args[r].stack_id = <<"a", "-", "b", "-", "1">>
        /\ RaisedAt(r, 1)
        /\ resp[r].status = 500

\* C10: in create_stack, when senza.render_definition raises
\* SenzaRenderError the result is the 400 'Invalid senza yaml' problem with
\* the message of the exception, and when a required key is absent from the
\* rendered definition it is the 400 'Invalid senza yaml' problem whose
\* detail names an absent key; in both cases render_definition is the only
\* call of the request.
C10_RenderFailureAborts ==
    \A r \in Reqs :
        (op[r] = "create_stack" /\ Len(calls[r]) >= 1) =>
            /\ RaisedAt(r, 1) =>
                  /\ Done(r)
                  /\ resp[r] = problem(400, "Invalid senza yaml",
                                       <<calls[r][1].out[3]>>, _make_headers)
                  /\ Len(calls[r]) = 1
            /\ (Rendered(r) /\ loc[r].absentKeys # {}) =>
                  /\ Done(r)
                  /\ \E k \in loc[r].absentKeys :
                        resp[r] = problem(400, "Invalid senza yaml",
                                          <<MissingPropertyPrefix>> \o PyRepr(k),
                                          _make_headers)
                  /\ Len(calls[r]) = 1

\* a launch configuration names an artifact and a later resource lacks a key
C10_Witness ==
    \E r \in Reqs :
        /\ Rendered(r) /\ Done(r)
        /\ loc[r].absentKeys = {"Type"}
        /\ ~loc[r].noLC
        /\ args[r].application_version = Some("1.0")

\* the handler of request r has split its identifier
HasSplit(r) ==
    /\ op[r] \in {"get_stack", "patch_stack", "delete_stack"}
    /\ Len(calls[r]) >= 1

HasSep(s) == \E i \in 1..Len(s) : s[i] = SEP

\* C11 as claimed: for every name and every version, the split of
\* name + '-' + version by get_stack, patch_stack and delete_stack gives back
\* name and version.
C11_SplitRecoversAnyPair ==
    \A r \in Reqs :
        HasSplit(r) =>
            \A name \in AnyNames, version \in AnyVersions :
                StackId(name, version) = args[r].stack_id =>
                    /\ loc[r].stack_name = name
                    /\ loc[r].stack_version = version

\* C11: for every name, with or without the separator, and every version
\* without the separator, the split of name + '-' + version by get_stack,
\* patch_stack and delete_stack gives back name and version.
C11_SplitRecoversPair ==
    \A r \in Reqs :
        HasSplit(r) =>
            \A name \in AnyNames, version \in AnyVersions :
                (~HasSep(version) /\ StackId(name, version) = args[r].stack_id) =>
                    /\ loc[r].stack_name = name
                    /\ loc[r].stack_version = version

C11_Witness ==
    \E r \in Reqs :
        /\ op[r] = "delete_stack" /\ Done(r)
        /\ args[r].stack_id = StackId(<<"a", SEP>>, <<"1", "1">>)
        /\ loc[r].stack_name = <<"a", SEP>>
        /\ loc[r].stack_version = <<"1", "1">>

\* C12: every response and every problem that a handler of the module
\* produces, the 404 of exception_to_connexion_problem and the answer of
\* not_found_path_handler included, carries the X-Lizzy-Version header.
C12_EveryResponseHasVersionHeader ==
    \A r \in Reqs :
        (Done(r) /\ resp[r].kind \in {"response", "problem"}) =>
            <<"X-Lizzy-Version", VERSION>> \in resp[r].headers

ExternalOperations ==
    {"senza.render_definition", "kio.versions_create", "senza.create",
     "senza.patch", "senza.respawn_instances", "senza.domains", "senza.traffic",
     "senza.remove"}

ChangingOperations ==
    {"kio.versions_create", "senza.create", "senza.patch",
     "senza.respawn_instances", "senza.traffic", "senza.remove"}

\* call i of request r raised, or returned False where the tool reports
\* failure by its result
FailedAt(r, i) ==
    \/ RaisedAt(r, i)
    \/ /\ calls[r][i].call \in {"kio.versions_create", "senza.create"}
       /\ ReturnedAt(r, i, FALSE)

\* C13: within one request each external operation is called at most once,
\* and after a call that failed the request makes no further changing call,
\* except senza.create after a failed Kio.versions_create.
C13_NoRetry ==
    \A r \in Reqs :
        /\ \A o \in ExternalOperations : Cardinality(CallIndexes(r, {o})) <= 1
        /\ \A i \in 1..Len(calls[r]) :
              (calls[r][i].call \in ExternalOperations /\ FailedAt(r, i)) =>
                  \A j \in (i + 1)..Len(calls[r]) :
                      \/ calls[r][j].call \notin ChangingOperations
                      \/ /\ calls[r][i].call = "kio.versions_create"
                         /\ calls[r][j].call = "senza.create"

C13_Witness ==
    \E r \in Reqs :
        /\ op[r] = "patch_stack" /\ Done(r)
        /\ Len(calls[r]) = 5
        /\ calls[r][2].out = Ok /\ calls[r][3].out = Ok
        /\ calls[r][5].call = "senza.traffic" /\ FailedAt(r, 5)

Range(f) == {f[i] : i \in DOMAIN f}

\* C14: all_stacks answers 200 with the stacks that Stack.list returned,
\* each once, in an order of non-decreasing creation_time, in whatever order
\* Stack.list returned them.
C14_AllStacksSorted ==
    \A r \in Reqs :
        (op[r] = "all_stacks" /\ Done(r)) =>
            /\ resp[r].kind = "response" /\ resp[r].status = 200
            /\ Len(resp[r].body) = Len(loc[r].listed)
            /\ Range(resp[r].body) = Range(loc[r].listed)
            /\ \A i, j \in 1..Len(resp[r].body) :
                  i < j => resp[r].body[i].creation_time <= resp[r].body[j].creation_time

\* Stack.list returned the younger stack first
C14_Witness ==
    \E r \in Reqs :
        /\ op[r] = "all_stacks" /\ Done(r)
        /\ Len(loc[r].listed) = 2
        /\ loc[r].listed[1].creation_time > loc[r].listed[2].creation_time
        /\ resp[r].body = <<loc[r].listed[2], loc[r].listed[1]>>

CreateCalls(r) == CallIndexes(r, {"senza.create"})

\* C15: create_stack answers 201 only when senza.create returned true, and
\* the body is then the stack read from the platform by the Stack.get that
\* directly follows senza.create (creation time and traffic included, which
\* no request carries); when senza.create returns false the request ends
\* with the 400 'Deployment Failed' problem with its fixed message and
\* Stack.get is not called.
C15_CreatedStackIsRequeried ==
    \A r \in Reqs :
        op[r] = "create_stack" =>
            /\ (Done(r) /\ resp[r].status = 201) =>
                  \E i \in CreateCalls(r) :
                     /\ calls[r][i].out = Returned(TRUE)
                     /\ Len(calls[r]) = i + 1
                     /\ calls[r][i + 1].call = "Stack.get"
                     /\ calls[r][i + 1].args = calls[r][i].args
                     /\ resp[r].kind = "response"
                     /\ stacks[calls[r][i].args] # None
                     /\ resp[r].body =
                          Some([stacks[calls[r][i].args][1] EXCEPT !.readAt = i + 1])
            /\ \A i \in CreateCalls(r) :
                  calls[r][i].out = Returned(FALSE) =>
                     /\ Done(r)
                     /\ resp[r] = problem(400, "Deployment Failed",
                                          <<CreateFailedMessage>>, _make_headers)
                     /\ ~Called(r, {"Stack.get"})

C15_Witness ==
    \E r \in Reqs :
        /\ op[r] = "create_stack"
        /\ Done(r)
        /\ resp[r].status = 201
        /\ resp[r].body # None
        /\ resp[r].body[1].creation_time = 2

DomainCalls(r) == CallIndexes(r, {"senza.domains"})

SwitchCalls(r) == CallIndexes(r, {"senza.traffic"})

\* C16: in patch_stack, a senza.domains that raises SenzaDomainsError ends
\* the request with the 400 'Traffic update failed' problem whose detail is
\* the message of the error, and senza.traffic is not called; a
\* senza.traffic that raises SenzaTrafficError ends it with the same problem
\* and the message of that error; every senza.traffic call directly follows
\* a senza.domains of the same request that returned domains.
C16_TrafficFailures ==
    \A r \in Reqs :
        op[r] = "patch_stack" =>
            /\ \A i \in DomainCalls(r) :
                  RaisedAt(r, i) =>
                     /\ calls[r][i].out[2] = "SenzaDomainsError"
                     /\ Done(r)
                     /\ resp[r] = problem(400, "Traffic update failed",
                                          <<calls[r][i].out[3]>>, _make_headers)
                     /\ SwitchCalls(r) = {}
            /\ \A i \in SwitchCalls(r) :
                  /\ RaisedAt(r, i) =>
                        /\ calls[r][i].out[2] = "SenzaTrafficError"
                        /\ Done(r)
                        /\ resp[r] = problem(400, "Traffic update failed",
                                             <<calls[r][i].out[3]>>, _make_headers)
                  /\ i - 1 \in DomainCalls(r)
                  /\ calls[r][i - 1].out = Returned("domains")

C16_Witness ==
    \E r \in Reqs :
        /\ op[r] = "patch_stack"
        /\ Done(r)
        /\ \E i \in DomainCalls(r) : RaisedAt(r, i)
        /\ resp[r].title = "Traffic update failed"

KioCalls(r) == CallIndexes(r, {"kio.versions_create"})

\* the definition was rendered, none of its required keys is absent and its
\* last launch configuration names an artifact
Extracted(r) ==
    /\ Rendered(r)
    /\ loc[r].absentKeys = {}
    /\ loc[r].rendered[2] # None

\* C17: once create_stack is past its registration step,
\* Kio.versions_create has been called exactly when the definition was
\* rendered, stack name and artifact were extracted from it and the request
\* has a non-empty application_version; the call is made once, before
\* senza.create, with the StackName of the rendered definition, the
\* application_version of the request and the artifact of the last launch
\* configuration of the definition.
C17_RegistrationWhenVersioned ==
    \A r \in Reqs :
        (op[r] = "create_stack" /\ pc[r] \in {"create_senza", "create_get", "done"}) =>
            /\ KioCalls(r) # {} <=>
                  (Extracted(r) /\ args[r].application_version \notin {None, Some("")})
            /\ \A i \in KioCalls(r) :
                  /\ KioCalls(r) = {i}
                  /\ \A j \in CreateCalls(r) : i < j
                  /\ calls[r][i].args = <<loc[r].rendered[1],
                                          args[r].application_version,
                                          loc[r].rendered[2]>>

C17_Witness ==
    \E r \in Reqs :
        /\ op[r] = "create_stack"
        /\ KioCalls(r) # {}
        /\ CreateCalls(r) # {}
        /\ Len(loc[r].stack_name) > 1
        /\ loc[r].artifact_name # None

\* C18: in patch_stack, when the first Stack.get raises ObjectNotFound the
\* request ends with the 404 problem of exception_to_connexion_problem and
\* that Stack.get is its only call: senza.patch, senza.respawn_instances,
\* senza.domains and senza.traffic are not called, whatever the body
\* carries.
C18_PatchUnknownCallsNothing ==
    \A r \in Reqs :
        (/\ op[r] = "patch_stack"
         /\ Len(calls[r]) >= 1
         /\ RaisedAt(r, 1)) =>
            /\ calls[r][1].call = "Stack.get"
            /\ Done(r)
            /\ resp[r] = exception_to_connexion_problem(args[r].stack_id)
            /\ resp[r].status = 404
            /\ Len(calls[r]) = 1
            /\ ~Called(r, ImageCalls \cup TrafficCalls)

C18_Witness ==
    \E r \in Reqs :
        /\ op[r] = "patch_stack"
        /\ Done(r)
        /\ RaisedAt(r, 1)
        /\ Carries(r, "new_ami_image")
        /\ Carries(r, "new_traffic")

\* the calls of r that changed the stack on the platform
Performed(r) ==
    {i \in CallIndexes(r, MutatingCalls) : calls[r][i].out = Ok}

\* C19 as stated: a patch_stack request that ends with 404 has performed
\* none of senza.patch, senza.respawn_instances and senza.traffic, also
\* when another request deletes the stack while the patch runs.
C19_NotFoundPatchChangedNothing ==
    \A r \in Reqs :
        (op[r] = "patch_stack" /\ Done(r) /\ resp[r].status = 404) =>
            Performed(r) = {}

\* C19: a patch_stack request that ends with 404 has a Stack.get that
\* raised ObjectNotFound as its last call; when it made a mutating call
\* before, its first Stack.get had found the stack, none of its calls in
\* between failed, the 404 is that of the final re-fetch and the stack is
\* gone from the platform.
C19_NotFoundPatchLostItsStack ==
    \A r \in Reqs :
        (op[r] = "patch_stack" /\ Done(r) /\ resp[r].status = 404) =>
            LET n == Len(calls[r])
            IN  /\ n >= 1
                /\ calls[r][n].call = "Stack.get"
                /\ RaisedAt(r, n)
                /\ resp[r] = exception_to_connexion_problem(args[r].stack_id)
                /\ Called(r, MutatingCalls) =>
                      /\ n > 1
                      /\ calls[r][1].call = "Stack.get"
                      /\ \A i \in 1..(n - 1) : ~RaisedAt(r, i)
                      /\ stacks[<<loc[r].stack_name, loc[r].stack_version>>] = None

C19_Witness ==
    \E r \in Reqs :
        /\ op[r] = "patch_stack"
        /\ Done(r)
        /\ resp[r].status = 404
        /\ Performed(r) # {}
        /\ \E d \in Reqs \ {r} :
              /\ op[d] = "delete_stack"
              /\ Done(d)
              /\ args[d].stack_id = args[r].stack_id

\* both steps of the image update of r succeeded
ImageUpdated(r) ==
    /\ \E i \in CallIndexes(r, {"senza.patch"}) : calls[r][i].out = Ok
    /\ \E i \in CallIndexes(r, {"senza.respawn_instances"}) : calls[r][i].out = Ok

\* the calls at which the traffic update of r failed: no domain, a
\* SenzaDomainsError or a SenzaTrafficError
TrafficFailedAt(r) ==
    {i \in DomainCalls(r) : RaisedAt(r, i) \/ calls[r][i].out = Returned("no domains")}
    \cup {i \in SwitchCalls(r) : RaisedAt(r, i)}

\* r carries both fields, its image update succeeded and its traffic update
\* failed
PartiallyFailed(r) ==
    /\ op[r] = "patch_stack"
    /\ Carries(r, "new_ami_image")
    /\ Carries(r, "new_traffic")
    /\ ImageUpdated(r)
    /\ TrafficFailedAt(r) # {}

\* after a partial failure the failed call is the last call of the request:
\* nothing undoes the image update, the stack is not read again and the
\* platform keeps the new image
PartialFailureKeepsImage ==
    \A r \in Reqs :
        PartiallyFailed(r) =>
            LET key == <<loc[r].stack_name, loc[r].stack_version>>
            IN  /\ Done(r)
                /\ TrafficFailedAt(r) = {Len(calls[r])}
                /\ CallIndexes(r, {"Stack.get"}) = {1}
                /\ stacks[key] # None
                /\ stacks[key][1].image_version = args[r].stack_patch["new_ami_image"][1]
                /\ resp[r].title # "Image update failed"
                /\ resp[r].status # 202

\* C20: in patch_stack with both fields, when the image update succeeded
\* and the traffic update then fails for want of a domain, by
\* SenzaDomainsError or by SenzaTrafficError, no further call is made, the
\* new image stays on the platform, the stack is not read again, and the
\* response is a 400 problem that reports the traffic failure.
C20_PartialFailureReported ==
    /\ PartialFailureKeepsImage
    /\ \A r \in Reqs :
          PartiallyFailed(r) =>
             /\ resp[r].kind = "problem"
             /\ resp[r].status = 400
             /\ resp[r].title \in {"Traffic update failed", "TrafficNotUpdated"}

====
